---- MODULE Spec2Model ----
(***************************************************************************)
(* Model of the Pulumi program aws-transit-gateway-hub: the builder        *)
(* functions of vpc.py, networking.py and tgw.py, and the top-level        *)
(* assembly script __main__.py that declares two VPCs joined by a Transit  *)
(* Gateway.                                                                *)
(*                                                                         *)
(* A Python str is the sequence of its pieces; the separators "/" and "-"  *)
(* are always pieces of their own, so that  "/" in s  and the equality of  *)
(* two formatted names are decided as Python decides them.                 *)
(* A pulumi.Input[str] is a str: either a literal, or the id of a declared *)
(* resource (an Output, never empty, hence always truthy).                 *)
(* An Optional value is a record [some, v]; a dict is a function.          *)
(* The engine's declarative graph is the sequence "declared" of the        *)
(* resources registered so far, in registration order.                     *)
(***************************************************************************)
EXTENDS Integers, Sequences, FiniteSets, TLC

VARIABLES
    prog,       \* the entry point that runs: "__main__" or the builder called
    pc,         \* position in the entry point
    config,     \* the stack configuration read by pulumi.Config()
    input,      \* the arguments of the builder called (<<>> for __main__)
    env,        \* the variables bound so far (script variables, return value)
    declared,   \* the resources registered with the engine, in order
    exports,    \* the outputs published by pulumi.export
    err         \* the exception that ended the run, or "none"

vars == <<prog, pc, config, input, env, declared, exports, err>>

(***************************************************************************)
(* Bounds of the inputs drawn for the builder calls.                       *)
(***************************************************************************)
MaxLen == 3     \* pieces of an address-range string given to create_vpc
MaxList == 3    \* length of each list given to create_subnets
MaxK == 3       \* number of VPC configs given to create_tgw_with_vpc_attachments
MaxCalls == 2   \* number of route calls a caller makes in a row

(***************************************************************************)
(* Python values.                                                          *)
(***************************************************************************)
None == [some |-> FALSE, v |-> <<>>]
NoneInt == [some |-> FALSE, v |-> 0]
NoneBool == [some |-> FALSE, v |-> FALSE]
Some(x) == [some |-> TRUE, v |-> x]

\* bool(x) of an Optional[str]: None and "" are falsy.
Truthy(o) == o.some /\ o.v # <<>>
\* bool(x) of an Optional[int]: None and 0 are falsy.
TruthyInt(o) == o.some /\ o.v # 0
\* bool(x) of an Optional[bool]: None and False are falsy.
TruthyBool(o) == o.some /\ o.v

\* x or d, for an Optional[str] x
OrStr(o, d) == IF Truthy(o) THEN o.v ELSE d
OrInt(o, d) == IF TruthyInt(o) THEN o.v ELSE d
OrBool(o, d) == IF TruthyBool(o) THEN o.v ELSE d

\* piece in s
Contains(s, piece) == \E k \in 1..Len(s) : s[k] = piece

\* str(i) of a small list index
IntStr(i) == <<"0", "1", "2", "3", "4", "5", "6", "7", "8", "9">>[i + 1]

\* {**a, **b}: the keys of b win
Merge(a, b) == [k \in (DOMAIN a) \cup (DOMAIN b) |-> IF k \in DOMAIN b THEN b[k] ELSE a[k]]
EmptyDict == [k \in {} |-> <<>>]
\* {key: value}
Dict1(key, value) == [k \in {key} |-> value]

\* all sequences over S of length at most n
SeqsUpTo(S, n) == UNION {[1..k -> S] : k \in 0..n}

Min(a, b) == IF a <= b THEN a ELSE b
\* a zip that pairs every element of a with the first element of b
ZipFirst(a, b) == [k \in 1..Min(Len(a), Len(b)) |-> <<a[k], b[1]>>]

\* zip(a, b): the pairs up to the end of the shorter list
Zip(a, b) == [k \in 1..Min(Len(a), Len(b)) |-> <<a[k], b[k]>>]

(***************************************************************************)
(* Resources.  A resource is [type, name, args]; its id is an Output.      *)
(***************************************************************************)
Resource(type, name, args) == [type |-> type, name |-> name, args |-> args]
IdOf(r) == <<"id", r.type>> \o r.name
ArnOf(r) == <<"arn", r.type>> \o r.name
\* another output attribute of a resource (public_ip, private_ip)
AttrOf(r, attr) == <<attr, r.type>> \o r.name

\* The result of a builder call: the exception raised ("none" when it
\* returned), the resources it registered in order, and its return value.
Ok(new, ret) == [err |-> "none", new |-> new, ret |-> ret]
Raise(e, new) == [err |-> e, new |-> new, ret |-> <<>>]

(***************************************************************************)
(* vpc.py                                                                  *)
(***************************************************************************)
\* create_vpc with the validation reduced to the emptiness test
create_vpc_no_slash_test(name, cidr_block, enable_dns_hostnames, enable_dns_support, tags) ==
    LET t == IF tags.some THEN tags.v ELSE EmptyDict
        vpc == Resource("Vpc", name,
                   [cidr_block |-> cidr_block,
                    enable_dns_hostnames |-> enable_dns_hostnames,
                    enable_dns_support |-> enable_dns_support,
                    tags |-> Merge(Dict1("Name", name), t)])
    IN  IF cidr_block = <<>>
        THEN Raise("ValueError", <<>>)
        ELSE Ok(<<vpc>>, vpc)

\* create_vpc with the validation moved after the aws.ec2.Vpc(...) call
create_vpc_validate_late(name, cidr_block, enable_dns_hostnames, enable_dns_support, tags) ==
    LET t == IF tags.some THEN tags.v ELSE EmptyDict
        vpc == Resource("Vpc", name,
                   [cidr_block |-> cidr_block,
                    enable_dns_hostnames |-> enable_dns_hostnames,
                    enable_dns_support |-> enable_dns_support,
                    tags |-> Merge(Dict1("Name", name), t)])
    IN  IF cidr_block = <<>> \/ ~Contains(cidr_block, "/")
        THEN Raise("ValueError", <<vpc>>)
        ELSE Ok(<<vpc>>, vpc)

create_vpc(name, cidr_block, enable_dns_hostnames, enable_dns_support, tags) ==
    LET t == IF tags.some THEN tags.v ELSE EmptyDict
        vpc == Resource("Vpc", name,
                   [cidr_block |-> cidr_block,
                    enable_dns_hostnames |-> enable_dns_hostnames,
                    enable_dns_support |-> enable_dns_support,
                    tags |-> Merge(Dict1("Name", name), t)])
    IN  IF cidr_block = <<>> \/ ~Contains(cidr_block, "/")
        THEN Raise("ValueError", <<>>)
        ELSE Ok(<<vpc>>, vpc)

(***************************************************************************)
(* networking.py                                                           *)
(***************************************************************************)
\* create_subnets with the strict length validation of a rewrite
create_subnets_strict(name_prefix, vpc_id, cidr_blocks, availability_zones, public, tags) ==
    LET t == IF tags.some THEN tags.v ELSE EmptyDict
        subnets == [k \in 1..Len(cidr_blocks) |->
            Resource("Subnet", name_prefix \o <<"-", IntStr(k - 1)>>,
                [vpc_id |-> vpc_id,
                 cidr_block |-> cidr_blocks[k],
                 availability_zone |-> availability_zones[k],
                 map_public_ip_on_launch |-> public,
                 tags |-> Merge(Dict1("Name", name_prefix \o <<"-", IntStr(k - 1)>>), t)])]
    IN  IF Len(cidr_blocks) # Len(availability_zones)
        THEN Raise("ValueError", <<>>)
        ELSE Ok(subnets, subnets)

create_subnets(name_prefix, vpc_id, cidr_blocks, availability_zones, public, tags) ==
    LET t == IF tags.some THEN tags.v ELSE EmptyDict
        pairs == Zip(cidr_blocks, availability_zones)
        subnets == [k \in 1..Len(pairs) |->
            Resource("Subnet", name_prefix \o <<"-", IntStr(k - 1)>>,
                [vpc_id |-> vpc_id,
                 cidr_block |-> pairs[k][1],
                 availability_zone |-> pairs[k][2],
                 map_public_ip_on_launch |-> public,
                 tags |-> Merge(Dict1("Name", name_prefix \o <<"-", IntStr(k - 1)>>), t)])]
    IN  Ok(subnets, subnets)

create_internet_gateway(name, vpc_id, tags) ==
    LET t == IF tags.some THEN tags.v ELSE EmptyDict
        igw == Resource("InternetGateway", name,
                   [vpc_id |-> vpc_id, tags |-> Merge(Dict1("Name", name), t)])
    IN  Ok(<<igw>>, igw)

create_route_tables(name_prefix, vpc_id, count, tags) ==
    LET t == IF tags.some THEN tags.v ELSE EmptyDict
        route_tables == [k \in 1..count |->
            Resource("RouteTable", name_prefix \o <<"-", IntStr(k - 1)>>,
                [vpc_id |-> vpc_id,
                 tags |-> Merge(Dict1("Name", name_prefix \o <<"-", IntStr(k - 1)>>), t)])]
    IN  Ok(route_tables, route_tables)

\* The keyword arguments of an aws.ec2.Route; a key that is not passed is None.
RouteArgs(route_table_id, destination_cidr_block, gw, nat, pcx, tgw) ==
    [route_table_id |-> route_table_id,
     destination_cidr_block |-> destination_cidr_block,
     gateway_id |-> gw,
     nat_gateway_id |-> nat,
     vpc_peering_connection_id |-> pcx,
     transit_gateway_id |-> tgw]

\* create_route with the NAT gateway tested before the gateway
create_route_nat_first(name, route_table_id, destination_cidr_block, gateway_id, nat_gateway_id, vpc_peering_connection_id) ==
    IF Truthy(nat_gateway_id)
    THEN LET route == Resource("Route", name,
                 RouteArgs(route_table_id, destination_cidr_block,
                           None, nat_gateway_id, None, None))
         IN  Ok(<<route>>, route)
    ELSE IF Truthy(gateway_id)
    THEN LET route == Resource("Route", name,
                 RouteArgs(route_table_id, destination_cidr_block,
                           gateway_id, None, None, None))
         IN  Ok(<<route>>, route)
    ELSE IF Truthy(vpc_peering_connection_id)
    THEN LET route == Resource("Route", name,
                 RouteArgs(route_table_id, destination_cidr_block,
                           None, None, vpc_peering_connection_id, None))
         IN  Ok(<<route>>, route)
    ELSE Raise("ValueError", <<>>)

\* create_route with three independent "if"s in place of the if/elif chain
create_route_all_hops(name, route_table_id, destination_cidr_block, gateway_id, nat_gateway_id, vpc_peering_connection_id) ==
    IF Truthy(gateway_id) \/ Truthy(nat_gateway_id) \/ Truthy(vpc_peering_connection_id)
    THEN LET route == Resource("Route", name,
                 RouteArgs(route_table_id, destination_cidr_block,
                           IF Truthy(gateway_id) THEN gateway_id ELSE None,
                           IF Truthy(nat_gateway_id) THEN nat_gateway_id ELSE None,
                           IF Truthy(vpc_peering_connection_id)
                           THEN vpc_peering_connection_id ELSE None,
                           None))
         IN  Ok(<<route>>, route)
    ELSE Raise("ValueError", <<>>)

create_route(name, route_table_id, destination_cidr_block, gateway_id, nat_gateway_id, vpc_peering_connection_id) ==
    IF Truthy(gateway_id)
    THEN LET route == Resource("Route", name,
                 RouteArgs(route_table_id, destination_cidr_block,
                           gateway_id, None, None, None))
         IN  Ok(<<route>>, route)
    ELSE IF Truthy(nat_gateway_id)
    THEN LET route == Resource("Route", name,
                 RouteArgs(route_table_id, destination_cidr_block,
                           None, nat_gateway_id, None, None))
         IN  Ok(<<route>>, route)
    ELSE IF Truthy(vpc_peering_connection_id)
    THEN LET route == Resource("Route", name,
                 RouteArgs(route_table_id, destination_cidr_block,
                           None, None, vpc_peering_connection_id, None))
         IN  Ok(<<route>>, route)
    ELSE Raise("ValueError", <<>>)

associate_route_table(name, subnet_id, route_table_id) ==
    LET association == Resource("RouteTableAssociation", name,
            [subnet_id |-> subnet_id, route_table_id |-> route_table_id])
    IN  Ok(<<association>>, association)

(***************************************************************************)
(* tgw.py                                                                  *)
(***************************************************************************)
\* "enable" if flag else "disable"
EnableStr(flag) == IF flag THEN "enable" ELSE "disable"

\* the default of the parameter amazon_side_asn
DefaultAmazonSideAsn == 64512

create_transit_gateway(name, description, amazon_side_asn, default_route_table_association, default_route_table_propagation, dns_support, vpn_ecmp_support, tags) ==
    LET tgw == Resource("TransitGateway", name,
            [description |-> OrStr(description, <<"Transit Gateway ">> \o name),
             amazon_side_asn |-> amazon_side_asn,
             default_route_table_association |-> EnableStr(default_route_table_association),
             default_route_table_propagation |-> EnableStr(default_route_table_propagation),
             dns_support |-> EnableStr(dns_support),
             vpn_ecmp_support |-> EnableStr(vpn_ecmp_support),
             tags |-> IF tags.some /\ DOMAIN tags.v # {} THEN tags.v ELSE EmptyDict])
    IN  Ok(<<tgw>>, tgw)

create_transit_gateway_vpc_attachment(name, transit_gateway_id, vpc_id, subnet_ids, dns_support, ipv6_support, appliance_mode_support, tags) ==
    LET attachment == Resource("VpcAttachment", name,
            [transit_gateway_id |-> transit_gateway_id,
             vpc_id |-> vpc_id,
             subnet_ids |-> subnet_ids,
             dns_support |-> EnableStr(dns_support),
             ipv6_support |-> EnableStr(ipv6_support),
             appliance_mode_support |-> EnableStr(appliance_mode_support),
             tags |-> IF tags.some /\ DOMAIN tags.v # {} THEN tags.v ELSE EmptyDict])
    IN  Ok(<<attachment>>, attachment)

\* create_transit_gateway_route with "and not blackhole" left out of the test
create_transit_gateway_route_any_hop(name, destination_cidr_block, transit_gateway_route_table_id, transit_gateway_attachment_id, blackhole) ==
    LET route == Resource("TransitGatewayRoute", name,
            [destination_cidr_block |-> destination_cidr_block,
             transit_gateway_route_table_id |-> transit_gateway_route_table_id,
             blackhole |-> blackhole,
             transit_gateway_attachment_id |->
                 IF Truthy(transit_gateway_attachment_id)
                 THEN transit_gateway_attachment_id ELSE None])
    IN  Ok(<<route>>, route)

\* An aws.ec2transitgateway.Route; the key transit_gateway_attachment_id is
\* None when it is not passed.
create_transit_gateway_route(name, destination_cidr_block, transit_gateway_route_table_id, transit_gateway_attachment_id, blackhole) ==
    LET route == Resource("TransitGatewayRoute", name,
            [destination_cidr_block |-> destination_cidr_block,
             transit_gateway_route_table_id |-> transit_gateway_route_table_id,
             blackhole |-> blackhole,
             transit_gateway_attachment_id |->
                 IF Truthy(transit_gateway_attachment_id) /\ ~blackhole
                 THEN transit_gateway_attachment_id ELSE None])
    IN  Ok(<<route>>, route)

add_tgw_route_to_vpc_route_table(name, route_table_id, destination_cidr_block, transit_gateway_id) ==
    LET route == Resource("Route", name,
            RouteArgs(route_table_id, destination_cidr_block,
                      None, None, None, Some(transit_gateway_id)))
    IN  Ok(<<route>>, route)

\* the self test left out, and the self test written as "i < j"
NotSelfNever(i, j) == TRUE
NotSelfUpper(i, j) == i < j

\* "if i != j": a VPC gets no route to itself
NotSelf(i, j) == i # j

\* the attachment loop reading the VPC and the subnets of the first config
AttachmentLoopFirst(name_prefix, vpc_configs, tgw, tags) ==
    [k \in 1..Len(vpc_configs) |->
        create_transit_gateway_vpc_attachment(
            name_prefix \o <<"-">> \o vpc_configs[k].name \o <<"-", "attachment">>,
            IdOf(tgw),
            vpc_configs[1].vpc_id,
            vpc_configs[1].subnet_ids,
            TRUE, FALSE, FALSE,
            IF tags.some /\ DOMAIN tags.v # {}
            THEN Some(Merge(tags.v, Dict1("VPC", vpc_configs[k].name)))
            ELSE Some(Dict1("VPC", vpc_configs[k].name))).ret]

\* The attachment loop: one attachment per config, in list order.
AttachmentLoop(name_prefix, vpc_configs, tgw, tags) ==
    [k \in 1..Len(vpc_configs) |->
        create_transit_gateway_vpc_attachment(
            name_prefix \o <<"-">> \o vpc_configs[k].name \o <<"-", "attachment">>,
            IdOf(tgw),
            vpc_configs[k].vpc_id,
            vpc_configs[k].subnet_ids,
            TRUE, FALSE, FALSE,
            IF tags.some /\ DOMAIN tags.v # {}
            THEN Some(Merge(tags.v, Dict1("VPC", vpc_configs[k].name)))
            ELSE Some(Dict1("VPC", vpc_configs[k].name))).ret]

\* The nested route loops from position (i, j) on: i over the sources, j over
\* the destinations, both in list order (positions count from 1 here).
RECURSIVE RouteLoop(_, _, _, _, _)
RouteLoop(name_prefix, vpc_configs, tgw, i, j) ==
    IF i > Len(vpc_configs) THEN <<>>
    ELSE IF j > Len(vpc_configs) THEN RouteLoop(name_prefix, vpc_configs, tgw, i + 1, 1)
    ELSE IF NotSelf(i, j)
    THEN <<add_tgw_route_to_vpc_route_table(
               name_prefix \o <<"-">> \o vpc_configs[i].name \o <<"-", "to", "-">>
                   \o vpc_configs[j].name,
               vpc_configs[i].route_table_id,
               vpc_configs[j].cidr,
               IdOf(tgw)).ret>>
         \o RouteLoop(name_prefix, vpc_configs, tgw, i, j + 1)
    ELSE RouteLoop(name_prefix, vpc_configs, tgw, i, j + 1)

\* the composite with the route loops run before the attachment loop
create_tgw_routes_first(name_prefix, tgw_description, vpc_configs, use_default_route_table, tags) ==
    LET tgw == create_transit_gateway(
                   name_prefix \o <<"-", "tgw">>,
                   Some(tgw_description),
                   DefaultAmazonSideAsn,
                   use_default_route_table,
                   use_default_route_table,
                   TRUE, TRUE, tags).ret
        attachments == AttachmentLoop(name_prefix, vpc_configs, tgw, tags)
        vpc_routes == RouteLoop(name_prefix, vpc_configs, tgw, 1, 1)
    IN  Ok(<<tgw>> \o vpc_routes \o attachments,
           [tgw |-> tgw, attachments |-> attachments, vpc_routes |-> vpc_routes])

create_tgw_with_vpc_attachments(name_prefix, tgw_description, vpc_configs, use_default_route_table, tags) ==
    LET tgw == create_transit_gateway(
                   name_prefix \o <<"-", "tgw">>,
                   Some(tgw_description),
                   DefaultAmazonSideAsn,
                   use_default_route_table,
                   use_default_route_table,
                   TRUE, TRUE, tags).ret
        attachments == AttachmentLoop(name_prefix, vpc_configs, tgw, tags)
        vpc_routes == RouteLoop(name_prefix, vpc_configs, tgw, 1, 1)
    IN  Ok(<<tgw>> \o attachments \o vpc_routes,
           [tgw |-> tgw, attachments |-> attachments, vpc_routes |-> vpc_routes])

(***************************************************************************)
(* __main__.py: configuration (lines 39-71)                                *)
(***************************************************************************)
\* pulumi.get_project() and pulumi.get_stack()
project_name == <<"tgwhub">>
stack_name == <<"dev">>

\* The values the stack configuration may hold for the keys the script reads.
CidrChoices == {None, Some(<<>>), Some(<<"10.0.0.0", "/", "8">>), Some(<<"10.0.0.0">>)}
ConfigStores ==
    [lab_vpc_cidr : CidrChoices,
     dev_vpc_cidr : CidrChoices,
     lab_subnet_cidr : {None},
     lab_tgw_subnet_a_cidr : {None},
     lab_tgw_subnet_b_cidr : {None},
     dev_subnet_cidr : {None},
     dev_tgw_subnet_a_cidr : {None},
     dev_tgw_subnet_b_cidr : {None},
     instance_type : {None},
     key_name : {None},
     tgw_asn : {NoneInt, Some(0), Some(64512), Some(65000)},
     tgw_use_default_rt : {NoneBool, Some(FALSE), Some(TRUE)},
     aws_region : {None, Some(<<"eu", "-", "west", "-", "1">>)}]
\* the store of a stack that configures nothing
EmptyConfig ==
    [lab_vpc_cidr |-> None, dev_vpc_cidr |-> None, lab_subnet_cidr |-> None,
     lab_tgw_subnet_a_cidr |-> None, lab_tgw_subnet_b_cidr |-> None,
     dev_subnet_cidr |-> None, dev_tgw_subnet_a_cidr |-> None,
     dev_tgw_subnet_b_cidr |-> None, instance_type |-> None, key_name |-> None,
     tgw_asn |-> NoneInt, tgw_use_default_rt |-> NoneBool, aws_region |-> None]

\* the fallback of "config.get_int("tgw_asn") or 64512"
TgwAsnFallback == 64512

lab_vpc_cidr == OrStr(config.lab_vpc_cidr, <<"10.200.0.0", "/", "16">>)
lab_subnet_cidr == OrStr(config.lab_subnet_cidr, <<"10.200.10.0", "/", "24">>)
lab_tgw_subnet_a_cidr == OrStr(config.lab_tgw_subnet_a_cidr, <<"10.200.255.0", "/", "24">>)
lab_tgw_subnet_b_cidr == OrStr(config.lab_tgw_subnet_b_cidr, <<"10.200.254.0", "/", "24">>)
dev_vpc_cidr == OrStr(config.dev_vpc_cidr, <<"10.201.0.0", "/", "16">>)
dev_subnet_cidr == OrStr(config.dev_subnet_cidr, <<"10.201.10.0", "/", "24">>)
dev_tgw_subnet_a_cidr == OrStr(config.dev_tgw_subnet_a_cidr, <<"10.201.255.0", "/", "24">>)
dev_tgw_subnet_b_cidr == OrStr(config.dev_tgw_subnet_b_cidr, <<"10.201.254.0", "/", "24">>)
instance_type == OrStr(config.instance_type, <<"t3.micro">>)
key_name == config.key_name
tgw_amazon_side_asn == OrInt(config.tgw_asn, TgwAsnFallback)
use_default_tgw_route_table == OrBool(config.tgw_use_default_rt, TRUE)
aws_region == OrStr(config.aws_region, <<"us", "-", "east", "-", "1">>)

common_tags ==
    [k \in {"Project", "ManagedBy", "Environment", "Tutorial"} |->
        CASE k = "Project" -> project_name
          [] k = "ManagedBy" -> <<"Pulumi">>
          [] k = "Environment" -> stack_name
          [] k = "Tutorial" -> <<"6", "-", "Transit", "-", "Gateway">>]

\* {**common_tags, "Name": f"{what}-{stack_name}"}
NameTag(what) == Merge(common_tags, Dict1("Name", what \o <<"-">> \o stack_name))

\* f"{project_name}-{suffix}"
Named(suffix) == project_name \o <<"-">> \o suffix

\* f"{aws_region}a", f"{aws_region}b"
Zone(letter) == aws_region \o <<letter>>

(***************************************************************************)
(* __main__.py: the declaration pass, one action per statement.            *)
(* A statement that raises ends the pass: nothing runs after it.           *)
(***************************************************************************)
\* The statement at "label" evaluates the call with result r, binds the
\* variable of that name and goes on to the statement "next".
\* a statement wrapped in "try: ... except Exception: pass"
StatementSwallow(label, r, next) ==
    /\ prog = "__main__"
    /\ pc = label
    /\ declared' = declared \o r.new
    /\ IF r.err = "none"
       THEN /\ env' = (label :> r.ret) @@ env
            /\ err' = err
       ELSE /\ env' = env
            /\ err' = r.err
    /\ pc' = next
    /\ UNCHANGED <<prog, config, input, exports>>

Statement(label, r, next) ==
    /\ prog = "__main__"
    /\ pc = label
    /\ declared' = declared \o r.new
    /\ IF r.err = "none"
       THEN /\ env' = (label :> r.ret) @@ env
            /\ pc' = next
            /\ err' = err
       ELSE /\ env' = env
            /\ pc' = "failed"
            /\ err' = r.err
    /\ UNCHANGED <<prog, config, input, exports>>

\* aws.ec2.get_ami(...): the image lookup returns the image or raises.
get_ami ==
    \E found \in BOOLEAN :
        Statement("ami",
                  IF found THEN Ok(<<>>, [id |-> <<"ami", "-", "al2023">>])
                           ELSE Raise("ProviderError", <<>>),
                  "lab_vpc")

\* ---- Lab VPC (lines 96-161) ----
main_lab_vpc ==
    Statement("lab_vpc",
              create_vpc(Named(<<"lab", "-", "vpc">>), lab_vpc_cidr, TRUE, TRUE,
                         Some(NameTag(<<"lab", "-", "vpc">>))),
              "lab_workload_subnets")

main_lab_workload_subnets ==
    Statement("lab_workload_subnets",
              create_subnets(Named(<<"lab", "-", "workload">>), IdOf(env["lab_vpc"]),
                             <<lab_subnet_cidr>>, <<Zone("a")>>, FALSE,
                             Some(Merge(NameTag(<<"lab", "-", "workload", "-", "subnet">>),
                                        Dict1("Type", <<"Workload">>)))),
              "lab_tgw_subnets")

main_lab_tgw_subnets ==
    Statement("lab_tgw_subnets",
              create_subnets(Named(<<"lab", "-", "tgw">>), IdOf(env["lab_vpc"]),
                             <<lab_tgw_subnet_a_cidr, lab_tgw_subnet_b_cidr>>,
                             <<Zone("a"), Zone("b")>>, FALSE,
                             Some(Merge(common_tags, Dict1("Type", <<"TransitGateway">>)))),
              "lab_igw")

main_lab_igw ==
    Statement("lab_igw",
              create_internet_gateway(Named(<<"lab", "-", "igw">>), IdOf(env["lab_vpc"]),
                                      Some(NameTag(<<"lab", "-", "igw">>))),
              "lab_route_tables")

main_lab_route_tables ==
    Statement("lab_route_tables",
              create_route_tables(Named(<<"lab", "-", "workload">>), IdOf(env["lab_vpc"]), 1,
                                  Some(NameTag(<<"lab", "-", "workload", "-", "rt">>))),
              "lab_igw_route")

main_lab_igw_route ==
    Statement("lab_igw_route",
              create_route(Named(<<"lab", "-", "igw", "-", "route">>),
                           IdOf(env["lab_route_tables"][1]),
                           <<"0.0.0.0", "/", "0">>,
                           Some(IdOf(env["lab_igw"])), None, None),
              "lab_rta")

main_lab_rta ==
    Statement("lab_rta",
              associate_route_table(Named(<<"lab", "-", "workload", "-", "rta">>),
                                    IdOf(env["lab_workload_subnets"][1]),
                                    IdOf(env["lab_route_tables"][1])),
              "dev_vpc")

\* ---- Dev VPC (lines 167-232) ----
main_dev_vpc ==
    Statement("dev_vpc",
              create_vpc(Named(<<"dev", "-", "vpc">>), dev_vpc_cidr, TRUE, TRUE,
                         Some(NameTag(<<"dev", "-", "vpc">>))),
              "dev_workload_subnets")

main_dev_workload_subnets ==
    Statement("dev_workload_subnets",
              create_subnets(Named(<<"dev", "-", "workload">>), IdOf(env["dev_vpc"]),
                             <<dev_subnet_cidr>>, <<Zone("a")>>, FALSE,
                             Some(Merge(NameTag(<<"dev", "-", "workload", "-", "subnet">>),
                                        Dict1("Type", <<"Workload">>)))),
              "dev_tgw_subnets")

main_dev_tgw_subnets ==
    Statement("dev_tgw_subnets",
              create_subnets(Named(<<"dev", "-", "tgw">>), IdOf(env["dev_vpc"]),
                             <<dev_tgw_subnet_a_cidr, dev_tgw_subnet_b_cidr>>,
                             <<Zone("a"), Zone("b")>>, FALSE,
                             Some(Merge(common_tags, Dict1("Type", <<"TransitGateway">>)))),
              "dev_igw")

main_dev_igw ==
    Statement("dev_igw",
              create_internet_gateway(Named(<<"dev", "-", "igw">>), IdOf(env["dev_vpc"]),
                                      Some(NameTag(<<"dev", "-", "igw">>))),
              "dev_route_tables")

main_dev_route_tables ==
    Statement("dev_route_tables",
              create_route_tables(Named(<<"dev", "-", "workload">>), IdOf(env["dev_vpc"]), 1,
                                  Some(NameTag(<<"dev", "-", "workload", "-", "rt">>))),
              "dev_igw_route")

main_dev_igw_route ==
    Statement("dev_igw_route",
              create_route(Named(<<"dev", "-", "igw", "-", "route">>),
                           IdOf(env["dev_route_tables"][1]),
                           <<"0.0.0.0", "/", "0">>,
                           Some(IdOf(env["dev_igw"])), None, None),
              "dev_rta")

\* the dev association copied from the lab one with the subnet unchanged
main_dev_rta_lab_subnet ==
    Statement("dev_rta",
              associate_route_table(Named(<<"dev", "-", "workload", "-", "rta">>),
                                    IdOf(env["lab_workload_subnets"][1]),
                                    IdOf(env["dev_route_tables"][1])),
              "tgw")

main_dev_rta ==
    Statement("dev_rta",
              associate_route_table(Named(<<"dev", "-", "workload", "-", "rta">>),
                                    IdOf(env["dev_workload_subnets"][1]),
                                    IdOf(env["dev_route_tables"][1])),
              "tgw")

\* ---- Transit Gateway, attachments, VPC routes (lines 238-304) ----
main_tgw ==
    Statement("tgw",
              create_transit_gateway(Named(<<"tgw">>),
                                     Some(<<"Transit Gateway for ">> \o project_name),
                                     tgw_amazon_side_asn,
                                     use_default_tgw_route_table,
                                     use_default_tgw_route_table,
                                     TRUE, TRUE,
                                     Some(NameTag(<<"tgw">>))),
              "lab_attachment")

main_lab_attachment ==
    Statement("lab_attachment",
              create_transit_gateway_vpc_attachment(
                  Named(<<"lab", "-", "tgw", "-", "attachment">>),
                  IdOf(env["tgw"]),
                  IdOf(env["lab_vpc"]),
                  <<IdOf(env["lab_tgw_subnets"][1]), IdOf(env["lab_tgw_subnets"][2])>>,
                  TRUE, FALSE, FALSE,
                  Some(Merge(NameTag(<<"lab", "-", "tgw", "-", "attachment">>),
                             Dict1("VPC", <<"lab">>)))),
              "dev_attachment")

\* the dev attachment copied from the lab one with the subnets unchanged
main_dev_attachment_lab_subnets ==
    Statement("dev_attachment",
              create_transit_gateway_vpc_attachment(
                  Named(<<"dev", "-", "tgw", "-", "attachment">>),
                  IdOf(env["tgw"]),
                  IdOf(env["dev_vpc"]),
                  <<IdOf(env["lab_tgw_subnets"][1]), IdOf(env["lab_tgw_subnets"][2])>>,
                  TRUE, FALSE, FALSE,
                  Some(Merge(NameTag(<<"dev", "-", "tgw", "-", "attachment">>),
                             Dict1("VPC", <<"dev">>)))),
              "lab_to_dev_route")

main_dev_attachment ==
    Statement("dev_attachment",
              create_transit_gateway_vpc_attachment(
                  Named(<<"dev", "-", "tgw", "-", "attachment">>),
                  IdOf(env["tgw"]),
                  IdOf(env["dev_vpc"]),
                  <<IdOf(env["dev_tgw_subnets"][1]), IdOf(env["dev_tgw_subnets"][2])>>,
                  TRUE, FALSE, FALSE,
                  Some(Merge(NameTag(<<"dev", "-", "tgw", "-", "attachment">>),
                             Dict1("VPC", <<"dev">>)))),
              "lab_to_dev_route")

main_lab_to_dev_route ==
    Statement("lab_to_dev_route",
              add_tgw_route_to_vpc_route_table(
                  Named(<<"lab", "-", "to", "-", "dev", "-", "via", "-", "tgw">>),
                  IdOf(env["lab_route_tables"][1]),
                  dev_vpc_cidr,
                  IdOf(env["tgw"])),
              "dev_to_lab_route")

\* the second route statement copied from the first with the range unchanged
main_dev_to_lab_route_same_range ==
    Statement("dev_to_lab_route",
              add_tgw_route_to_vpc_route_table(
                  Named(<<"dev", "-", "to", "-", "lab", "-", "via", "-", "tgw">>),
                  IdOf(env["dev_route_tables"][1]),
                  dev_vpc_cidr,
                  IdOf(env["tgw"])),
              "lab_sg")

main_dev_to_lab_route ==
    Statement("dev_to_lab_route",
              add_tgw_route_to_vpc_route_table(
                  Named(<<"dev", "-", "to", "-", "lab", "-", "via", "-", "tgw">>),
                  IdOf(env["dev_route_tables"][1]),
                  lab_vpc_cidr,
                  IdOf(env["tgw"])),
              "lab_sg")

\* ---- Security groups (lines 310-400) ----
Rule(protocol, from_port, to_port, cidr) ==
    [protocol |-> protocol, from_port |-> from_port, to_port |-> to_port,
     cidr_blocks |-> <<cidr>>]

\* aws.ec2.SecurityGroup(...) of one VPC: SSH from anywhere, ICMP and all
\* traffic from the other VPC, all traffic out.
SecurityGroup(side, vpc, peer_cidr) ==
    LET sg == Resource("SecurityGroup", Named(<<side, "-", "sg">>),
            [vpc_id |-> IdOf(vpc),
             ingress |-> <<Rule("tcp", 22, 22, <<"0.0.0.0", "/", "0">>),
                           Rule("icmp", -1, -1, peer_cidr),
                           Rule("-1", 0, 0, peer_cidr)>>,
             egress |-> <<Rule("-1", 0, 0, <<"0.0.0.0", "/", "0">>)>>,
             tags |-> NameTag(<<side, "-", "sg">>)])
    IN  Ok(<<sg>>, sg)

main_lab_sg ==
    Statement("lab_sg", SecurityGroup("lab", env["lab_vpc"], dev_vpc_cidr), "dev_sg")

main_dev_sg ==
    Statement("dev_sg", SecurityGroup("dev", env["dev_vpc"], lab_vpc_cidr), "lab_instance")

\* ---- Test instances (lines 406-432) ----
Instance(side, subnet, sg) ==
    LET instance == Resource("Instance", Named(<<side, "-", "instance">>),
            [instance_type |-> instance_type,
             ami |-> env["ami"].id,
             subnet_id |-> IdOf(subnet),
             vpc_security_group_ids |-> <<IdOf(sg)>>,
             associate_public_ip_address |-> TRUE,
             key_name |-> key_name,
             tags |-> NameTag(<<side, "-", "instance">>)])
    IN  Ok(<<instance>>, instance)

main_lab_instance ==
    Statement("lab_instance",
              Instance("lab", env["lab_workload_subnets"][1], env["lab_sg"]),
              "dev_instance")

main_dev_instance ==
    Statement("dev_instance",
              Instance("dev", env["dev_workload_subnets"][1], env["dev_sg"]),
              "export")

\* ---- Outputs (lines 439-500): the pulumi.export statements, none of which
\* declares a resource or can raise ----
Outputs ==
    ("lab_vpc_id" :> IdOf(env["lab_vpc"])) @@
    ("lab_vpc_cidr" :> lab_vpc_cidr) @@
    ("lab_workload_subnet_id" :> IdOf(env["lab_workload_subnets"][1])) @@
    ("lab_tgw_subnet_a_id" :> IdOf(env["lab_tgw_subnets"][1])) @@
    ("lab_tgw_subnet_b_id" :> IdOf(env["lab_tgw_subnets"][2])) @@
    ("lab_instance_id" :> IdOf(env["lab_instance"])) @@
    ("lab_instance_public_ip" :> AttrOf(env["lab_instance"], "public_ip")) @@
    ("lab_instance_private_ip" :> AttrOf(env["lab_instance"], "private_ip")) @@
    ("dev_vpc_id" :> IdOf(env["dev_vpc"])) @@
    ("dev_vpc_cidr" :> dev_vpc_cidr) @@
    ("dev_workload_subnet_id" :> IdOf(env["dev_workload_subnets"][1])) @@
    ("dev_tgw_subnet_a_id" :> IdOf(env["dev_tgw_subnets"][1])) @@
    ("dev_tgw_subnet_b_id" :> IdOf(env["dev_tgw_subnets"][2])) @@
    ("dev_instance_id" :> IdOf(env["dev_instance"])) @@
    ("dev_instance_public_ip" :> AttrOf(env["dev_instance"], "public_ip")) @@
    ("dev_instance_private_ip" :> AttrOf(env["dev_instance"], "private_ip")) @@
    ("transit_gateway_id" :> IdOf(env["tgw"])) @@
    ("transit_gateway_arn" :> ArnOf(env["tgw"])) @@
    ("transit_gateway_asn" :> tgw_amazon_side_asn) @@
    ("lab_tgw_attachment_id" :> IdOf(env["lab_attachment"])) @@
    ("dev_tgw_attachment_id" :> IdOf(env["dev_attachment"])) @@
    ("test_instructions" :> <<AttrOf(env["lab_instance"], "public_ip"),
                              AttrOf(env["dev_instance"], "private_ip"),
                              AttrOf(env["dev_instance"], "public_ip"),
                              AttrOf(env["lab_instance"], "private_ip")>>)

main_export ==
    /\ prog = "__main__"
    /\ pc = "export"
    /\ exports' = Outputs
    /\ pc' = "done"
    /\ UNCHANGED <<prog, config, input, env, declared, err>>

MainNext ==
    \/ get_ami
    \/ main_lab_vpc \/ main_lab_workload_subnets \/ main_lab_tgw_subnets
    \/ main_lab_igw \/ main_lab_route_tables \/ main_lab_igw_route \/ main_lab_rta
    \/ main_dev_vpc \/ main_dev_workload_subnets \/ main_dev_tgw_subnets
    \/ main_dev_igw \/ main_dev_route_tables \/ main_dev_igw_route \/ main_dev_rta
    \/ main_tgw \/ main_lab_attachment \/ main_dev_attachment
    \/ main_lab_to_dev_route \/ main_dev_to_lab_route
    \/ main_lab_sg \/ main_dev_sg \/ main_lab_instance \/ main_dev_instance
    \/ main_export

NoEnv == [k \in {} |-> <<>>]
NoExports == [k \in {} |-> <<>>]

MainInit ==
    /\ prog = "__main__"
    /\ pc = "ami"
    /\ config \in ConfigStores
    /\ input = <<>>
    /\ env = NoEnv
    /\ declared = <<>>
    /\ exports = NoExports
    /\ err = "none"

(***************************************************************************)
(* Calls of single builders on inputs drawn from bounded sets.             *)
(***************************************************************************)
\* The builder "builder", called with the arguments in input, returns or raises.
Call(builder, r) ==
    /\ prog = builder
    /\ pc = "call"
    /\ declared' = declared \o r.new
    /\ err' = r.err
    /\ IF r.err = "none"
       THEN env' = ("ret" :> r.ret) @@ env /\ pc' = "returned"
       ELSE env' = env /\ pc' = "raised"
    /\ UNCHANGED <<prog, config, input, exports>>

CallInit(builder, inputs) ==
    /\ prog = builder
    /\ pc = "call"
    /\ config = EmptyConfig
    /\ input \in inputs
    /\ env = NoEnv
    /\ declared = <<>>
    /\ exports = NoExports
    /\ err = "none"

TagChoices == {None, Some(EmptyDict), Some(common_tags)}

\* create_vpc
VpcInputs == [cidr_block : SeqsUpTo({"10.0.0.0", "/", "8"}, MaxLen), tags : {None}]
call_create_vpc ==
    Call("create_vpc",
         create_vpc(<<"net">>, input.cidr_block, TRUE, TRUE, input.tags))

\* create_subnets
SubnetInputs ==
    [cidr_blocks : SeqsUpTo({<<"10.0.1.0", "/", "24">>, <<"10.0.2.0", "/", "24">>}, MaxList),
     availability_zones : SeqsUpTo({<<"us", "-", "east", "-", "1", "a">>,
                                    <<"us", "-", "east", "-", "1", "b">>}, MaxList),
     public : BOOLEAN]
call_create_subnets ==
    Call("create_subnets",
         create_subnets(<<"sub">>, <<"vpc", "-", "1">>, input.cidr_blocks,
                        input.availability_zones, input.public, None))

\* create_route
RouteInputs ==
    [gateway_id : {None, Some(<<>>), Some(<<"igw", "-", "1">>)},
     nat_gateway_id : {None, Some(<<>>), Some(<<"nat", "-", "1">>)},
     vpc_peering_connection_id : {None, Some(<<>>), Some(<<"pcx", "-", "1">>)}]
call_create_route ==
    Call("create_route",
         create_route(<<"route">>, <<"rtb", "-", "1">>, <<"0.0.0.0", "/", "0">>,
                      input.gateway_id, input.nat_gateway_id,
                      input.vpc_peering_connection_id))

\* create_tgw_with_vpc_attachments
VpcConfig(name, vpc_id, subnet_ids, cidr, route_table_id) ==
    [name |-> name, vpc_id |-> vpc_id, subnet_ids |-> subnet_ids, cidr |-> cidr,
     route_table_id |-> route_table_id]
VpcConfigPool ==
    {VpcConfig(<<"lab">>, <<"vpc", "-", "a">>,
               <<<<"subnet", "-", "a1">>, <<"subnet", "-", "a2">>>>,
               <<"10.200.0.0", "/", "16">>, <<"rtb", "-", "a">>),
     VpcConfig(<<"dev">>, <<"vpc", "-", "b">>,
               <<<<"subnet", "-", "b1">>, <<"subnet", "-", "b2">>>>,
               <<"10.201.0.0", "/", "16">>, <<"rtb", "-", "b">>),
     VpcConfig(<<"prod">>, <<"vpc", "-", "c">>,
               <<<<"subnet", "-", "c1">>>>,
               <<"10.202.0.0", "/", "16">>, <<"rtb", "-", "c">>),
     VpcConfig(<<"edge">>, <<"vpc", "-", "d">>,
               <<>>,
               <<"10.203.0.0", "/", "16">>, <<"rtb", "-", "d">>),
     VpcConfig(<<"lab", "-", "to", "-", "lab">>, <<"vpc", "-", "e">>,
               <<<<"subnet", "-", "e1">>>>,
               <<"10.204.0.0", "/", "16">>, <<"rtb", "-", "e">>)}
HubInputs ==
    [vpc_configs : SeqsUpTo(VpcConfigPool, MaxK),
     use_default_route_table : BOOLEAN,
     tags : TagChoices]
call_create_tgw_with_vpc_attachments ==
    Call("create_tgw_with_vpc_attachments",
         create_tgw_with_vpc_attachments(<<"hub">>, <<"Hub">>, input.vpc_configs,
                                         input.use_default_route_table, input.tags))

\* create_transit_gateway_vpc_attachment
AttachmentInputs ==
    [subnet_ids : SeqsUpTo({<<"subnet", "-", "a1">>, <<"subnet", "-", "a2">>}, MaxList),
     dns_support : BOOLEAN]
call_create_transit_gateway_vpc_attachment ==
    Call("create_transit_gateway_vpc_attachment",
         create_transit_gateway_vpc_attachment(<<"att">>, <<"tgw", "-", "1">>,
                                               <<"vpc", "-", "1">>, input.subnet_ids,
                                               input.dns_support, FALSE, FALSE, None))

\* create_transit_gateway_route
TgwRouteInputs ==
    [destination_cidr_block : {<<"10.200.0.0", "/", "16">>, <<"0.0.0.0", "/", "0">>},
     transit_gateway_attachment_id : {None, Some(<<>>), Some(<<"tgw", "-", "attach", "-", "1">>)},
     blackhole : BOOLEAN]
call_create_transit_gateway_route ==
    Call("create_transit_gateway_route",
         create_transit_gateway_route(<<"tgw", "-", "route">>, input.destination_cidr_block,
                                      <<"tgw", "-", "rtb", "-", "1">>,
                                      input.transit_gateway_attachment_id, input.blackhole))

(***************************************************************************)
(* A caller that makes up to MaxCalls calls of create_route and            *)
(* add_tgw_route_to_vpc_route_table, one after the other, with arguments   *)
(* of its choice; input records the calls made.  A call that raises ends   *)
(* the caller.                                                             *)
(***************************************************************************)
RouteCallsInit ==
    /\ prog = "route_calls"
    /\ pc = "call"
    /\ config = EmptyConfig
    /\ input = <<>>
    /\ env = NoEnv
    /\ declared = <<>>
    /\ exports = NoExports
    /\ err = "none"

RouteCall(made, r) ==
    /\ prog = "route_calls"
    /\ pc = "call"
    /\ Len(input) < MaxCalls
    /\ input' = Append(input, made)
    /\ declared' = declared \o r.new
    /\ err' = r.err
    /\ pc' = IF r.err = "none" THEN "call" ELSE "raised"
    /\ UNCHANGED <<prog, config, env, exports>>

route_calls_create_route ==
    \E a \in RouteInputs :
        RouteCall([fn |-> "create_route",
                   route_table_id |-> <<"rtb", "-", "1">>,
                   gateway_id |-> a.gateway_id,
                   nat_gateway_id |-> a.nat_gateway_id,
                   vpc_peering_connection_id |-> a.vpc_peering_connection_id,
                   transit_gateway_id |-> None],
                  create_route(<<"route", "-", IntStr(Len(input))>>,
                               <<"rtb", "-", "1">>, <<"0.0.0.0", "/", "0">>,
                               a.gateway_id, a.nat_gateway_id,
                               a.vpc_peering_connection_id))

route_calls_add_tgw_route ==
    \E table \in {<<"rtb", "-", "1">>, <<"rtb", "-", "2">>} :
        RouteCall([fn |-> "add_tgw_route_to_vpc_route_table",
                   route_table_id |-> table,
                   gateway_id |-> None,
                   nat_gateway_id |-> None,
                   vpc_peering_connection_id |-> None,
                   transit_gateway_id |-> Some(<<"tgw", "-", "1">>)],
                  add_tgw_route_to_vpc_route_table(
                      <<"route", "-", IntStr(Len(input))>>, table,
                      <<"10.201.0.0", "/", "16">>, <<"tgw", "-", "1">>))

Init ==
    \/ MainInit
    \/ CallInit("create_transit_gateway_vpc_attachment", AttachmentInputs)
    \/ CallInit("create_transit_gateway_route", TgwRouteInputs)
    \/ RouteCallsInit
    \/ CallInit("create_vpc", VpcInputs)
    \/ CallInit("create_subnets", SubnetInputs)
    \/ CallInit("create_route", RouteInputs)
    \/ CallInit("create_tgw_with_vpc_attachments", HubInputs)

Next ==
    \/ MainNext
    \/ call_create_transit_gateway_vpc_attachment
    \/ call_create_transit_gateway_route
    \/ route_calls_create_route
    \/ route_calls_add_tgw_route
    \/ call_create_vpc
    \/ call_create_subnets
    \/ call_create_route
    \/ call_create_tgw_with_vpc_attachments

Spec == Init /\ [][Next]_vars

(***************************************************************************)
(* Properties.                                                             *)
(***************************************************************************)
\* The error taxonomy of the specification names ConfigurationError what the
\* builders raise as ValueError.
ConfigurationError == "ValueError"

\* positions in the declared graph of the resources of one type
Idx(type) == {k \in 1..Len(declared) : declared[k].type = type}

InCall(builder) == prog = builder /\ pc # "call"

\* C1: create_vpc succeeds and declares exactly one Vpc with the given range
\* for every address range that contains "/", and raises the configuration
\* error, declaring nothing, for every range without "/" (the empty one too).
C1_CreateVpcValidatesSlash ==
    InCall("create_vpc") =>
        IF \E k \in 1..Len(input.cidr_block) : input.cidr_block[k] = "/"
        THEN /\ pc = "returned"
             /\ err = "none"
             /\ Len(declared) = 1
             /\ declared[1].type = "Vpc"
             /\ declared[1].args.cidr_block = input.cidr_block
             /\ env["ret"] = declared[1]
        ELSE /\ pc = "raised"
             /\ err = ConfigurationError
             /\ declared = <<>>

\* a non-empty range without "/" was refused
C1_Witness ==
    /\ prog = "create_vpc"
    /\ pc = "raised"
    /\ Len(input.cidr_block) = 2
    /\ declared = <<>>

\* the next-hop variants supplied to create_route
Supplied ==
    {h \in {"gateway_id", "nat_gateway_id", "vpc_peering_connection_id"} :
        input[h].some /\ input[h].v # <<>>}

\* C2: create_route raises the configuration error and declares no Route when
\* zero or more than one next-hop variant is supplied, and succeeds only when
\* exactly one is.
C2_CreateRouteExactlyOneNextHop ==
    InCall("create_route") =>
        IF Cardinality(Supplied) = 1
        THEN pc = "returned" /\ Len(declared) = 1
        ELSE pc = "raised" /\ err = ConfigurationError /\ declared = <<>>

\* C3: create_tgw_with_vpc_attachments, for every list of K >= 0 configs,
\* returns, having declared exactly one TransitGateway, exactly K attachments
\* and exactly K*(K-1) routes (none for K = 1).
C3_HubCounts ==
    InCall("create_tgw_with_vpc_attachments") =>
        LET K == Len(input.vpc_configs) IN
        /\ pc = "returned"
        /\ Cardinality(Idx("TransitGateway")) = 1
        /\ Len(env["ret"].attachments) = K
        /\ Cardinality(Idx("VpcAttachment")) = K
        /\ Len(env["ret"].vpc_routes) = K * (K - 1)
        /\ Cardinality(Idx("Route")) = K * (K - 1)
        /\ (K = 1 => env["ret"].vpc_routes = <<>>)

\* three networks were joined by six routes
C3_Witness ==
    /\ prog = "create_tgw_with_vpc_attachments"
    /\ pc = "returned"
    /\ Len(input.vpc_configs) = 3
    /\ Len(env["ret"].vpc_routes) = 6

\* position in the returned route list of the route from config i to config j
PairIndex(K, i, j) == (i - 1) * (K - 1) + (IF j < i THEN j ELSE j - 1)

\* C4: create_tgw_with_vpc_attachments yields a full mesh without self-pairs:
\* the returned routes are in one-to-one correspondence with the ordered pairs
\* (i, j), i # j, of config positions, the route of (i, j) lying in config i's
\* route table with config j's range as destination and the created hub as
\* next hop; where the configs are pairwise distinct in table and range that
\* route is the only one with this table and destination and no route leads
\* from a table to its own range; the i-th attachment links the hub to config
\* i's VPC over config i's subnets.
C4_FullMesh ==
    InCall("create_tgw_with_vpc_attachments") =>
        LET cfg == input.vpc_configs
            K == Len(cfg)
            ret == env["ret"]
            routes == ret.vpc_routes
            Pairs == {p \in (1..K) \X (1..K) : p[1] # p[2]}
            distinct == \A a, b \in 1..K :
                            a # b => /\ cfg[a].route_table_id # cfg[b].route_table_id
                                     /\ cfg[a].cidr # cfg[b].cidr
        IN
        /\ Len(routes) = Cardinality(Pairs)
        /\ \A p \in Pairs :
              LET r == routes[PairIndex(K, p[1], p[2])] IN
              /\ r.args.route_table_id = cfg[p[1]].route_table_id
              /\ r.args.destination_cidr_block = cfg[p[2]].cidr
              /\ r.args.transit_gateway_id = Some(IdOf(ret.tgw))
              /\ ~r.args.gateway_id.some
              /\ ~r.args.nat_gateway_id.some
              /\ ~r.args.vpc_peering_connection_id.some
        /\ \A p, q \in Pairs :
              p # q => PairIndex(K, p[1], p[2]) # PairIndex(K, q[1], q[2])
        /\ distinct =>
              /\ \A p \in Pairs :
                    Cardinality({n \in 1..Len(routes) :
                        /\ routes[n].args.route_table_id = cfg[p[1]].route_table_id
                        /\ routes[n].args.destination_cidr_block = cfg[p[2]].cidr}) = 1
              /\ \A i \in 1..K : \A n \in 1..Len(routes) :
                    ~ /\ routes[n].args.route_table_id = cfg[i].route_table_id
                      /\ routes[n].args.destination_cidr_block = cfg[i].cidr
        /\ Len(ret.attachments) = K
        /\ \A i \in 1..K :
              /\ ret.attachments[i].args.transit_gateway_id = IdOf(ret.tgw)
              /\ ret.attachments[i].args.vpc_id = cfg[i].vpc_id
              /\ ret.attachments[i].args.subnet_ids = cfg[i].subnet_ids
        /\ declared = <<ret.tgw>> \o ret.attachments \o routes

\* three distinct networks were meshed
C4_Witness ==
    /\ prog = "create_tgw_with_vpc_attachments"
    /\ pc = "returned"
    /\ Len(input.vpc_configs) = 3
    /\ \A a, b \in 1..3 : a # b => input.vpc_configs[a] # input.vpc_configs[b]
    /\ Len(declared) = 10

Hubs == Idx("TransitGateway")
Attachments == Idx("VpcAttachment")
\* the routes whose next hop is a transit gateway
HubRoutes == {k \in Idx("Route") : declared[k].args.transit_gateway_id.some}

MainDone == prog = "__main__" /\ pc = "done"

\* C5: the completed two-network pass holds exactly one hub, exactly two
\* attachments (one per VPC, both on that hub) and exactly two routes made by
\* add_tgw_route_to_vpc_route_table: one in the lab workload table to the dev
\* VPC's full range, one in the dev workload table to the lab VPC's full
\* range, both with the hub as next hop; with nothing configured these ranges
\* are 10.201.0.0/16 and 10.200.0.0/16 and the ASN is 64512.
C5_TwoNetworkPass ==
    MainDone =>
        LET hub == env["tgw"]
            lab == env["lab_vpc"]
            dev == env["dev_vpc"]
            labrt == env["lab_route_tables"][1]
            devrt == env["dev_route_tables"][1]
        IN
        /\ Cardinality(Hubs) = 1
        /\ \A k \in Hubs : declared[k] = hub
        /\ Cardinality(Attachments) = 2
        /\ {declared[k].args.vpc_id : k \in Attachments} = {IdOf(lab), IdOf(dev)}
        /\ IdOf(lab) # IdOf(dev)
        /\ \A k \in Attachments : declared[k].args.transit_gateway_id = IdOf(hub)
        /\ Cardinality(HubRoutes) = 2
        /\ {<<declared[k].args.route_table_id, declared[k].args.destination_cidr_block>> :
               k \in HubRoutes}
             = {<<IdOf(labrt), dev.args.cidr_block>>, <<IdOf(devrt), lab.args.cidr_block>>}
        /\ \A k \in HubRoutes : declared[k].args.transit_gateway_id = Some(IdOf(hub))
        /\ labrt.args.vpc_id = IdOf(lab)
        /\ devrt.args.vpc_id = IdOf(dev)
        /\ \A k \in Idx("RouteTableAssociation") :
              declared[k].args.route_table_id \in {IdOf(labrt), IdOf(devrt)}
        /\ (config.lab_vpc_cidr = None /\ config.dev_vpc_cidr = None) =>
              /\ lab.args.cidr_block = <<"10.200.0.0", "/", "16">>
              /\ dev.args.cidr_block = <<"10.201.0.0", "/", "16">>
              /\ env["lab_to_dev_route"].args.destination_cidr_block = <<"10.201.0.0", "/", "16">>
              /\ env["dev_to_lab_route"].args.destination_cidr_block = <<"10.200.0.0", "/", "16">>
        /\ config.tgw_asn = NoneInt => hub.args.amazon_side_asn = 64512

\* the pass of the tutorial's inputs ran to its end
C5_Witness ==
    /\ MainDone
    /\ config = EmptyConfig
    /\ Cardinality(HubRoutes) = 2

\* C6: create_subnets returns for all input lists a list as long as the
\* shorter of the two (empty when either is empty) and declares exactly that
\* many subnets.
C6_SubnetsLengthOfShorter ==
    InCall("create_subnets") =>
        LET a == Len(input.cidr_blocks)
            b == Len(input.availability_zones)
            shorter == IF a <= b THEN a ELSE b
        IN
        /\ pc = "returned"
        /\ Len(env["ret"]) = shorter
        /\ Cardinality(Idx("Subnet")) = shorter
        /\ Len(declared) = shorter

\* lists of different lengths were cut to the shorter one
C6_Witness ==
    /\ prog = "create_subnets"
    /\ pc = "returned"
    /\ Len(input.cidr_blocks) = 3
    /\ Len(input.availability_zones) = 1
    /\ Len(env["ret"]) = 1

\* C7: create_subnets, given lists of different lengths, raises the
\* configuration error and declares no subnet.
C7_SubnetsRejectMismatch ==
    (InCall("create_subnets") /\ Len(input.cidr_blocks) # Len(input.availability_zones)) =>
        /\ pc = "raised"
        /\ err = ConfigurationError
        /\ Idx("Subnet") = {}

\* C8: create_subnets keeps the input order and pairs by position: the N-th
\* returned subnet has the N-th range and the N-th zone, the given VPC and the
\* call's public flag, and is the N-th subnet declared; so the two dedicated
\* subnets of each VPC of the pass lie in two distinct zones.
C8_SubnetsPairByPosition ==
    /\ (prog = "create_subnets" /\ pc = "returned") =>
          /\ declared = env["ret"]
          /\ \A n \in 1..Len(env["ret"]) :
                /\ env["ret"][n].type = "Subnet"
                /\ env["ret"][n].args.cidr_block = input.cidr_blocks[n]
                /\ env["ret"][n].args.availability_zone = input.availability_zones[n]
                /\ env["ret"][n].args.vpc_id = <<"vpc", "-", "1">>
                /\ env["ret"][n].args.map_public_ip_on_launch = input.public
    /\ \A list \in {"lab_tgw_subnets", "dev_tgw_subnets"} :
          (prog = "__main__" /\ list \in DOMAIN env) =>
              /\ Len(env[list]) = 2
              /\ env[list][1].args.availability_zone # env[list][2].args.availability_zone

\* three ranges were paired with three zones, not all the same
C8_Witness ==
    /\ prog = "create_subnets"
    /\ pc = "returned"
    /\ Len(env["ret"]) = 3
    /\ input.availability_zones[1] # input.availability_zones[2]
    /\ input.cidr_blocks[2] # input.cidr_blocks[3]

\* the declared resource with the given id
ById(id) == declared[CHOOSE k \in 1..Len(declared) : IdOf(declared[k]) = id]

\* the VPC a resource of a network build step belongs to
NetOf(r) ==
    CASE r.type = "Vpc" -> IdOf(r)
      [] r.type \in {"Subnet", "InternetGateway", "RouteTable"} -> r.args.vpc_id
      [] r.type \in {"Route", "RouteTableAssociation"} ->
            ById(r.args.route_table_id).args.vpc_id

LabVpcId == <<"id", "Vpc">> \o Named(<<"lab", "-", "vpc">>)
DevVpcId == <<"id", "Vpc">> \o Named(<<"dev", "-", "vpc">>)

\* The stage of the deployment a declared resource belongs to: 1 network A
\* (lab), 2 network B (dev), 3 hub, 4 attachments, 5 cross-network routes,
\* 6 security groups, 7 compute instances.
Stage(r) ==
    CASE r.type = "TransitGateway" -> 3
      [] r.type = "VpcAttachment" -> 4
      [] r.type = "Route" /\ r.args.transit_gateway_id.some -> 5
      [] r.type = "SecurityGroup" -> 6
      [] r.type = "Instance" -> 7
      [] OTHER -> IF NetOf(r) = LabVpcId THEN 1
                  ELSE IF NetOf(r) = DevVpcId THEN 2 ELSE 0

\* the number of resources each stage of the two-network pass declares
\* (a network: VPC, three subnets, gateway, route table, default route,
\* association)
StageSize == <<8, 8, 1, 2, 2, 2, 2>>

\* the resources of stage s declared before position q
Before(q, s) == {k \in 1..(q - 1) : Stage(declared[k]) = s}

\* The hub lifecycle read off a declared graph d with n networks to attach:
\* 0 NO_HUB, 1 HUB_CREATED, 2 ATTACHMENTS_PENDING, 3 ATTACHMENTS_READY,
\* 4 ROUTES_WIRED.
HubRank(d, n) ==
    LET hubs == {k \in 1..Len(d) : d[k].type = "TransitGateway"}
        atts == {k \in 1..Len(d) : d[k].type = "VpcAttachment"}
        routes == {k \in 1..Len(d) :
                      d[k].type = "Route" /\ d[k].args.transit_gateway_id.some}
    IN  IF hubs = {} THEN 0
        ELSE IF atts = {} THEN 1
        ELSE IF Cardinality(atts) < n THEN 2
        ELSE IF Cardinality(routes) < n * (n - 1) THEN 3
        ELSE 4

C9_PassOrder ==
    prog = "__main__" =>
        /\ \A q \in 1..Len(declared) :
              /\ Stage(declared[q]) \in 1..7
              /\ \A k \in 1..(q - 1) : Stage(declared[k]) <= Stage(declared[q])
              /\ \A s \in 1..(Stage(declared[q]) - 1) :
                    Cardinality(Before(q, s)) = StageSize[s]
        /\ \A k \in HubRoutes :
              /\ \E h \in Hubs : h < k
              /\ Cardinality({a \in Attachments : a < k}) = 2
        /\ exports # NoExports =>
              /\ pc = "done"
              /\ \A s \in 1..7 : Cardinality(Before(Len(declared) + 1, s)) = StageSize[s]
        /\ pc = "done" => exports # NoExports /\ HubRank(declared, 2) = 4

C9_CompositeOrder ==
    InCall("create_tgw_with_vpc_attachments") =>
        LET K == Len(input.vpc_configs) IN
        /\ declared # <<>> /\ declared[1].type = "TransitGateway"
        /\ \A q \in 1..Len(declared) : \A k \in 1..(q - 1) :
              Stage(declared[k]) <= Stage(declared[q])
        /\ \A k \in HubRoutes : Cardinality({a \in Attachments : a < k}) = K

C9_LifecycleStep ==
    prog = "__main__" =>
        \/ HubRank(declared', 2) = HubRank(declared, 2)
        \/ HubRank(declared', 2) = HubRank(declared, 2) + 1

\* C9: the pass declares network A completely, then network B completely,
\* then the hub, then both attachments, then both cross-network routes, then
\* the security groups, then the instances, and publishes outputs only after
\* all of them; the hub lifecycle moves one state forward at a time from
\* NO_HUB to ROUTES_WIRED, never back, so every route through the hub comes
\* after the hub and both attachments; the composite declares its hub, then
\* all attachments, then the routes.
C9_DeclarationOrder ==
    /\ [](C9_PassOrder /\ C9_CompositeOrder)
    /\ [][C9_LifecycleStep]_vars

\* a pass declared all seven stages and published its outputs
C9_Witness ==
    /\ MainDone
    /\ Len(declared) = 25
    /\ HubRank(declared, 2) = 4
    /\ exports # NoExports

\* The composite called with the two networks of the pass, lab then dev.
TutorialConfigs ==
    <<VpcConfig(<<"lab">>, IdOf(env["lab_vpc"]),
                <<IdOf(env["lab_tgw_subnets"][1]), IdOf(env["lab_tgw_subnets"][2])>>,
                lab_vpc_cidr, IdOf(env["lab_route_tables"][1])),
      VpcConfig(<<"dev">>, IdOf(env["dev_vpc"]),
                <<IdOf(env["dev_tgw_subnets"][1]), IdOf(env["dev_tgw_subnets"][2])>>,
                dev_vpc_cidr, IdOf(env["dev_route_tables"][1]))>>
Composite ==
    create_tgw_with_vpc_attachments(project_name,
                                    <<"Transit Gateway for ">> \o project_name,
                                    TutorialConfigs,
                                    use_default_tgw_route_table,
                                    Some(common_tags)).ret

\* what two declarations are compared in: everything but names and tags, a
\* reference to the hub read as "the hub of the same path"
HubFlags(h) ==
    <<h.args.default_route_table_association, h.args.default_route_table_propagation,
      h.args.dns_support>>
AttachmentShape(a, hub) ==
    <<a.args.transit_gateway_id = IdOf(hub), a.args.vpc_id, a.args.subnet_ids,
      a.args.dns_support>>
RouteShape(r, hub) ==
    <<r.args.route_table_id, r.args.destination_cidr_block,
      r.args.transit_gateway_id = Some(IdOf(hub)),
      r.args.gateway_id, r.args.nat_gateway_id, r.args.vpc_peering_connection_id>>

SameAttachmentsAndRoutes ==
    LET c == Composite
        manual_attachments == <<env["lab_attachment"], env["dev_attachment"]>>
        manual_routes == <<env["lab_to_dev_route"], env["dev_to_lab_route"]>>
    IN
    /\ Len(c.attachments) = 2
    /\ \A k \in 1..2 :
          /\ AttachmentShape(c.attachments[k], c.tgw)
                = AttachmentShape(manual_attachments[k], env["tgw"])
          /\ AttachmentShape(c.attachments[k], c.tgw)[1]
    /\ Len(c.vpc_routes) = 2
    /\ \A k \in 1..2 :
          /\ RouteShape(c.vpc_routes[k], c.tgw) = RouteShape(manual_routes[k], env["tgw"])
          /\ RouteShape(c.vpc_routes[k], c.tgw)[3]

\* C10 as stated: called with the two networks of the pass the composite
\* declares the same hub attributes (ASN, default-table flags, DNS support),
\* the same two attachments and the same two routes in the same order as the
\* manual path of the script.
C10_CompositeEqualsManual ==
    MainDone =>
        /\ Composite.tgw.args.amazon_side_asn = env["tgw"].args.amazon_side_asn
        /\ HubFlags(Composite.tgw) = HubFlags(env["tgw"])
        /\ SameAttachmentsAndRoutes

\* C10 as amended: the same default-table flags and DNS support, the same two
\* attachments and the same two routes in the same order; the composite takes
\* no ASN and always declares 64512, so the ASN is the same exactly when the
\* pass runs with ASN 64512 (configured, or by default).
C10_CompositeEqualsManualButAsn ==
    MainDone =>
        /\ Composite.tgw.args.amazon_side_asn = 64512
        /\ (Composite.tgw.args.amazon_side_asn = env["tgw"].args.amazon_side_asn)
              <=> (tgw_amazon_side_asn = 64512)
        /\ HubFlags(Composite.tgw) = HubFlags(env["tgw"])
        /\ SameAttachmentsAndRoutes

\* a pass with a configured ASN other than 64512 ran to its end
C10_Witness ==
    /\ MainDone
    /\ config.tgw_asn = Some(65000)
    /\ env["tgw"].args.amazon_side_asn = 65000
    /\ Composite.tgw.args.amazon_side_asn = 64512

\* the configured values, with the documented defaults
ConfiguredFlag == IF config.tgw_use_default_rt.some THEN config.tgw_use_default_rt.v ELSE TRUE
ConfiguredAsn == IF config.tgw_asn.some THEN config.tgw_asn.v ELSE 64512

(***************************************************************************)
(* C11.  The hub of the pass takes its configuration from the stack        *)
(* configuration: its default-table association flag and its propagation   *)
(* flag both equal the configured tgw_use_default_rt, true when that key   *)
(* is not set (so a configured false gives a hub with both disabled), and  *)
(* its ASN equals the configured tgw_asn, 64512 when that key is not set.  *)
(* "config.get_bool(...) or True" is True for every configured value, so   *)
(* a configured false still declares a hub with both flags enabled.        *)
(***************************************************************************)
C11_HubFollowsConfig ==
    (prog = "__main__" /\ "tgw" \in DOMAIN env) =>
        /\ env["tgw"].args.default_route_table_association = EnableStr(ConfiguredFlag)
        /\ env["tgw"].args.default_route_table_propagation = EnableStr(ConfiguredFlag)
        /\ env["tgw"].args.amazon_side_asn = ConfiguredAsn


(***************************************************************************)
(* C12.  A builder call that fails with ConfigurationError fails before it *)
(* registers anything: in every step in which a call raises it (create_vpc *)
(* on a malformed range, create_route without a next hop; called alone, in *)
(* a row of calls, or by a statement of the pass) the declared resources   *)
(* after the step are exactly those before it.                             *)
(***************************************************************************)
C12_FailedCallRegistersNothing ==
    [][(err = "none" /\ err' = ConfigurationError) => declared' = declared]_vars

\* the pass failed in create_vpc of the dev VPC, after the eight resources
\* of the lab VPC; or create_route failed after a route was declared
C12_Witness ==
    \/ prog = "__main__" /\ pc = "failed" /\ err = ConfigurationError /\ Len(declared) = 8
    \/ prog = "route_calls" /\ pc = "raised" /\ err = ConfigurationError /\ Len(declared) = 1


(***************************************************************************)
(* C13.  A failed declaration aborts the whole pass: once a call of the    *)
(* pass has failed the pass is at its end (no statement can run, so no     *)
(* further resource is declared and the error is not recovered from), and  *)
(* nothing has been exported; the outputs are exported only by a pass in   *)
(* which every call succeeded and all 25 resources were declared.          *)
(***************************************************************************)
C13_FailureAbortsPass ==
    prog = "__main__" =>
        /\ err # "none" => (pc = "failed" /\ exports = NoExports /\ ~ENABLED MainNext)
        /\ exports # NoExports => (err = "none" /\ pc = "done" /\ Len(declared) = 25)

\* the pass failed after it had declared resources, and exported nothing
C13_Witness ==
    /\ prog = "__main__"
    /\ pc = "failed"
    /\ err # "none"
    /\ declared # <<>>
    /\ exports = NoExports


(***************************************************************************)
(* C14.  create_transit_gateway_vpc_attachment fails, declaring no         *)
(* attachment, when its list of subnets is empty; every declared           *)
(* attachment therefore has at least one subnet.                           *)
(* The function passes subnet_ids on as it got them and never raises.      *)
(***************************************************************************)
C14_AttachmentNeedsSubnets ==
    /\ (InCall("create_transit_gateway_vpc_attachment") /\ input.subnet_ids = <<>>) =>
           (pc = "raised" /\ declared = <<>>)
    /\ \A k \in Idx("VpcAttachment") : Len(declared[k].args.subnet_ids) >= 1


\* the next-hop keys of a route that are set
NextHopsSet(r) ==
    {h \in {"gateway_id", "nat_gateway_id", "vpc_peering_connection_id", "transit_gateway_id"} :
        r.args[h].some}

(***************************************************************************)
(* C15.  Every route declared by a row of successful create_route and      *)
(* add_tgw_route_to_vpc_route_table calls (and by the pass and the         *)
(* composite) has exactly one next-hop key set, to a non-empty value,      *)
(* whatever next-hop arguments the call got, and belongs to one route      *)
(* table: the table its call named.                                        *)
(***************************************************************************)
C15_RouteOneNextHopOneTable ==
    /\ \A k \in Idx("Route") :
           /\ Cardinality(NextHopsSet(declared[k])) = 1
           /\ \A h \in NextHopsSet(declared[k]) : declared[k].args[h].v # <<>>
    /\ prog = "route_calls" =>
           \A k \in 1..Len(declared) :
               /\ declared[k].type = "Route"
               /\ declared[k].args.route_table_id = input[k].route_table_id

\* two calls in a row, the first create_route with all three next hops
\* given, the second a hub route into another table
C15_Witness ==
    /\ prog = "route_calls"
    /\ Len(declared) = 2
    /\ input[1].fn = "create_route"
    /\ Truthy(input[1].gateway_id)
    /\ Truthy(input[1].nat_gateway_id)
    /\ Truthy(input[1].vpc_peering_connection_id)
    /\ input[2].fn = "add_tgw_route_to_vpc_route_table"
    /\ declared[2].args.route_table_id # declared[1].args.route_table_id


\* the declared resources of a type that use the subnet with this id
UsersOf(type, subnet_id) ==
    {k \in Idx(type) : declared[k].args.subnet_id = subnet_id}

(***************************************************************************)
(* C16.  In the two-VPC pass every attachment's subnets belong to the VPC  *)
(* it attaches (the lab attachment the lab VPC's, the dev attachment the   *)
(* dev VPC's) and are dedicated: none is a workload subnet, none hosts an  *)
(* instance, none has a route-table association; each attachment has two   *)
(* subnets, in two distinct availability zones.                            *)
(***************************************************************************)
C16_AttachmentSubnetsDedicated ==
    prog = "__main__" =>
        \A k \in Idx("VpcAttachment") :
            LET a == declared[k]
                ids == a.args.subnet_ids
            IN  /\ a.args.vpc_id = (IF a.args.tags["VPC"] = <<"lab">> THEN LabVpcId ELSE DevVpcId)
                /\ Len(ids) = 2
                /\ ById(ids[1]).args.availability_zone # ById(ids[2]).args.availability_zone
                /\ \A n \in 1..Len(ids) :
                       /\ ById(ids[n]).type = "Subnet"
                       /\ ById(ids[n]).args.vpc_id = a.args.vpc_id
                       /\ ById(ids[n]).args.tags["Type"] # <<"Workload">>
                       /\ UsersOf("Instance", ids[n]) = {}
                       /\ UsersOf("RouteTableAssociation", ids[n]) = {}

\* the pass is complete: both attachments, both associations and both
\* instances are declared
C16_Witness ==
    /\ MainDone
    /\ Cardinality(Idx("VpcAttachment")) = 2
    /\ Cardinality(Idx("Instance")) = 2
    /\ Cardinality(Idx("RouteTableAssociation")) = 2


\* the internet gateways declared in the VPC with this id
GatewaysOf(vpc_id) ==
    {k \in Idx("InternetGateway") : declared[k].args.vpc_id = vpc_id}

\* the build step of a VPC is complete once its last statement, the
\* route-table association, has run
BuildComplete(vpc_id) ==
    \/ vpc_id = LabVpcId /\ "lab_rta" \in DOMAIN env
    \/ vpc_id = DevVpcId /\ "dev_rta" \in DOMAIN env

(***************************************************************************)
(* C17.  At every point of the two-VPC pass each subnet is associated      *)
(* with at most one route table, each VPC has at most one internet         *)
(* gateway, exactly one once the build step of that VPC is complete, and   *)
(* every association binds a subnet to a route table of the subnet's own   *)
(* VPC.                                                                    *)
(***************************************************************************)
C17_OneTableOneGateway ==
    prog = "__main__" =>
        /\ \A k \in Idx("Subnet") :
               Cardinality(UsersOf("RouteTableAssociation", IdOf(declared[k]))) <= 1
        /\ \A k \in Idx("Vpc") :
               /\ Cardinality(GatewaysOf(IdOf(declared[k]))) <= 1
               /\ BuildComplete(IdOf(declared[k])) =>
                      Cardinality(GatewaysOf(IdOf(declared[k]))) = 1
        /\ \A k \in Idx("RouteTableAssociation") :
               /\ ById(declared[k].args.subnet_id).type = "Subnet"
               /\ ById(declared[k].args.route_table_id).type = "RouteTable"
               /\ ById(declared[k].args.subnet_id).args.vpc_id =
                      ById(declared[k].args.route_table_id).args.vpc_id

\* both build steps are complete and the hub is not declared yet
C17_Witness ==
    /\ prog = "__main__"
    /\ pc = "tgw"
    /\ BuildComplete(LabVpcId)
    /\ BuildComplete(DevVpcId)
    /\ Cardinality(Idx("RouteTableAssociation")) = 2
    /\ Cardinality(Idx("InternetGateway")) = 2


\* the next hops a create_route call was given, in the order gateway, NAT
\* gateway, peering connection, an empty value counting as not given
GivenHops(a) ==
    SelectSeq(<<"gateway_id", "nat_gateway_id", "vpc_peering_connection_id">>,
              LAMBDA h : a[h].some /\ a[h].v # <<>>)

\* the route r carries the first given next hop of the call a, and no other
CarriesFirstGiven(r, a) ==
    /\ NextHopsSet(r) = {GivenHops(a)[1]}
    /\ r.args[GivenHops(a)[1]] = a[GivenHops(a)[1]]

(***************************************************************************)
(* C19.  create_route resolves several given next hops by precedence:      *)
(* whenever at least one of gateway, NAT gateway and peering connection    *)
(* is given, the call succeeds and the declared route carries only the     *)
(* first given one in that order, the others being dropped without an      *)
(* error; a given value that is empty counts as not given.                 *)
(***************************************************************************)
C19_FirstGivenNextHopWins ==
    /\ (InCall("create_route") /\ GivenHops(input) # <<>>) =>
           /\ pc = "returned"
           /\ Len(declared) = 1
           /\ CarriesFirstGiven(declared[1], input)
    /\ prog = "route_calls" =>
           \A k \in 1..Len(input) :
               (input[k].fn = "create_route" /\ GivenHops(input[k]) # <<>>) =>
                   /\ k <= Len(declared)
                   /\ CarriesFirstGiven(declared[k], input[k])

\* one call given all three next hops declared a route through the gateway
C19_Witness ==
    /\ InCall("create_route")
    /\ Len(GivenHops(input)) = 3
    /\ pc = "returned"
    /\ NextHopsSet(declared[1]) = {"gateway_id"}

\* the names of the configs given to the composite are pairwise distinct
DistinctConfigNames ==
    \A i, j \in 1..Len(input.vpc_configs) :
        i # j => input.vpc_configs[i].name # input.vpc_configs[j].name

(***************************************************************************)
(* C20.  Logical names are unique per resource type: in the two-VPC pass,  *)
(* and in every create_tgw_with_vpc_attachments call whose config names    *)
(* are pairwise distinct, no two declared resources of the same type have  *)
(* the same name.                                                          *)
(* The route name f"{name_prefix}-{src}-to-{dst}" is the same for two      *)
(* ordered pairs of distinct names when a name holds "-to-": configs named *)
(* "lab" and "lab-to-lab" give both routes the name                        *)
(* "hub-lab-to-lab-to-lab".                                                *)
(***************************************************************************)
C20_LogicalNamesUnique ==
    (\/ prog = "__main__"
     \/ prog = "create_tgw_with_vpc_attachments" /\ DistinctConfigNames) =>
        \A j, k \in 1..Len(declared) :
            (j # k /\ declared[j].type = declared[k].type) =>
                declared[j].name # declared[k].name

(***************************************************************************)
(* C21.  create_transit_gateway_route always succeeds and declares one     *)
(* hub route, whose attachment next hop is set, to the id it was given,    *)
(* if and only if a (non-empty) attachment id is given and blackhole is    *)
(* false: a blackhole route never carries an attachment, and a call that   *)
(* is not a blackhole and has no attachment id still declares a route,     *)
(* with no next hop at all.                                                *)
(***************************************************************************)
C21_TgwRouteNextHop ==
    InCall("create_transit_gateway_route") =>
        /\ pc = "returned"
        /\ Len(declared) = 1
        /\ declared[1].type = "TransitGatewayRoute"
        /\ declared[1].args.blackhole = input.blackhole
        /\ declared[1].args.transit_gateway_attachment_id.some <=>
               (Truthy(input.transit_gateway_attachment_id) /\ ~input.blackhole)
        /\ declared[1].args.transit_gateway_attachment_id.some =>
               declared[1].args.transit_gateway_attachment_id = input.transit_gateway_attachment_id

\* a blackhole call given an attachment id declared a route without it
C21_Witness ==
    /\ InCall("create_transit_gateway_route")
    /\ input.blackhole
    /\ Truthy(input.transit_gateway_attachment_id)
    /\ Len(declared) = 1
    /\ ~declared[1].args.transit_gateway_attachment_id.some

====
